---- MODULE Spec2Model ----
(***************************************************************************)
(* Model of networkx/algorithms/centrality/bipartite_centrality.py:        *)
(* bipartite_degree_centrality, bipartite_betweenness_centrality and       *)
(* bipartite_closeness_centrality.                                         *)
(*                                                                         *)
(* Scores are Python floats in the source; here they are exact rationals   *)
(* <<numerator, denominator>> in lowest terms with a positive denominator, *)
(* so equality of scores is equality of the real numbers they denote.     *)
(* Dictionaries are functions; a dictionary key that is the float n        *)
(* (= len(top)) is the integer n, since Python hashes 2.0 and 2 alike.     *)
(* pc is the source line of the next statement to run (or the line that    *)
(* raised).                                                                *)
(***************************************************************************)
EXTENDS Integers, FiniteSets, Sequences, TLC

\* Largest number of nodes of an input graph with arbitrary edges.
MaxNodes == 3

\* Largest number of nodes of a bipartite input graph.
MaxBipartiteNodes == 5

VARIABLES G, nodes, normalized, call, status, pc, raised,
          top, bottom, n, m, centrality, betweenness, closeness,
          bet_max_top, bet_max_bot, todo

vars == <<G, nodes, normalized, call, status, pc, raised,
          top, bottom, n, m, centrality, betweenness, closeness,
          bet_max_top, bet_max_bot, todo>>

-----------------------------------------------------------------------------
(* Exact rational arithmetic standing for float arithmetic. *)

Abs(x) == IF x < 0 THEN -x ELSE x

RECURSIVE Gcd(_, _)
Gcd(a, b) == IF b = 0 THEN a ELSE Gcd(b, a % b)

\* The rational a/b (b # 0) in lowest terms.
Frac(a, b) ==
    LET g == Gcd(Abs(a), Abs(b))
        sgn == IF b < 0 THEN -1 ELSE 1
    IN  <<sgn * (a \div g), sgn * (b \div g)>>

Zero == Frac(0, 1)
One == Frac(1, 1)
RMul(x, y) == Frac(x[1] * y[1], x[2] * y[2])
RAdd(x, y) == Frac(x[1] * y[2] + y[1] * x[2], x[2] * y[2])
\* x / y for y # 0
RDiv(x, y) == Frac(x[1] * y[2], x[2] * y[1])
RLe(x, y) == x[1] * y[2] <= y[1] * x[2]
IsZero(x) == x[1] = 0

RECURSIVE SumInt(_, _)
SumInt(f, S) ==
    IF S = {} THEN 0
    ELSE LET x == CHOOSE y \in S : TRUE IN f[x] + SumInt(f, S \ {x})

RECURSIVE SumRat(_, _)
SumRat(f, S) ==
    IF S = {} THEN Zero
    ELSE LET x == CHOOSE y \in S : TRUE IN RAdd(f[x], SumRat(f, S \ {x}))

-----------------------------------------------------------------------------
(* Dictionaries *)

EmptyDict == <<>>

\* d[k] = v
SetItem(d, k, v) == [x \in DOMAIN d \cup {k} |-> IF x = k THEN v ELSE d[x]]

\* d.update(e)
Update(d, e) ==
    [x \in DOMAIN d \cup DOMAIN e |-> IF x \in DOMAIN e THEN e[x] ELSE d[x]]

-----------------------------------------------------------------------------
(* The graph library the functions call into. *)

Neighbors(Gr, v) == {w \in Gr.nodes : {v, w} \in Gr.edges}

\* G.degree_iter: the degree of a node
Degree(Gr, v) == Cardinality(Neighbors(Gr, v))

\* breadth-first levels from the nodes of thislevel, all at distance level
RECURSIVE BFS(_, _, _, _)
BFS(Gr, seen, thislevel, level) ==
    LET nextlevel == {w \in Gr.nodes \ DOMAIN seen :
                        \E v \in thislevel : {v, w} \in Gr.edges}
    IN  IF nextlevel = {} THEN seen
        ELSE BFS(Gr, seen @@ [w \in nextlevel |-> level + 1],
                 nextlevel, level + 1)

\* nx.single_source_shortest_path_length(G, source): distances to the
\* reachable nodes only, the source itself at distance 0
ShortestPathLengths(Gr, source) == BFS(Gr, [x \in {source} |-> 0], {source}, 0)

\* number of shortest paths from the source of dist to t
RECURSIVE Sigma(_, _, _)
Sigma(Gr, dist, t) ==
    IF dist[t] = 0 THEN 1
    ELSE LET preds == {w \in Neighbors(Gr, t) :
                         w \in DOMAIN dist /\ dist[w] = dist[t] - 1}
         IN  SumInt([w \in preds |-> Sigma(Gr, dist, w)], preds)

\* the fraction of the shortest s-t paths that pass through v
PairDependency(Gr, s, t, v) ==
    LET ds == ShortestPathLengths(Gr, s)
        dv == ShortestPathLengths(Gr, v)
    IN  IF t \in DOMAIN ds /\ v \in DOMAIN ds /\ t \in DOMAIN dv
           /\ ds[v] + dv[t] = ds[t]
        THEN Frac(Sigma(Gr, ds, v) * Sigma(Gr, dv, t), Sigma(Gr, ds, t))
        ELSE Zero

\* nx.betweenness_centrality(G, normalized=False): for every node the sum,
\* over the pairs {s, t} of other nodes, of the fraction of shortest s-t
\* paths through it
RawBetweenness(Gr) ==
    [v \in Gr.nodes |->
        LET others == Gr.nodes \ {v}
            pairs == {p \in SUBSET others : Cardinality(p) = 2}
            dep == [p \in pairs |->
                      LET s == CHOOSE x \in p : TRUE
                          t == CHOOSE x \in p : x # s
                      IN  PairDependency(Gr, s, t, v)]
        IN  SumRat(dep, pairs)]

-----------------------------------------------------------------------------
(* Inputs *)

\* node identifiers of a graph of at most K nodes: 1..k (an identifier
\* may equal len(top)) or K+1..K+k (no identifier can equal len(top))
NodeSets(K) == {1..k : k \in 0..K} \cup {(K + 1)..(K + k) : k \in 1..K}

PairsOf(S) == {e \in SUBSET S : Cardinality(e) = 2}

\* the pairs that join T to the rest of N
CrossPairs(N, T) == {e \in PairsOf(N) : Cardinality(e \cap T) = 1}

\* G is any graph of at most MaxNodes nodes and nodes any subset of its
\* nodes, or G has at most MaxBipartiteNodes nodes and is bipartite with
\* nodes as one side
Init ==
    /\ \/ \E N \in NodeSets(MaxNodes) : \E T \in SUBSET N :
             \E E \in SUBSET PairsOf(N) :
                /\ G = [nodes |-> N, edges |-> E]
                /\ nodes = T
       \/ \E N \in NodeSets(MaxBipartiteNodes) : \E T \in SUBSET N :
             \E E \in SUBSET CrossPairs(N, T) :
                /\ G = [nodes |-> N, edges |-> E]
                /\ nodes = T
    /\ normalized = TRUE
    /\ call = "none"
    /\ status = "idle"
    /\ pc = 0
    /\ raised = "none"
    /\ top = {}
    /\ bottom = {}
    /\ n = 0
    /\ m = 0
    /\ centrality = EmptyDict
    /\ betweenness = EmptyDict
    /\ closeness = EmptyDict
    /\ bet_max_top = Zero
    /\ bet_max_bot = Zero
    /\ todo = {}

-----------------------------------------------------------------------------
(* bipartite_degree_centrality(G, nodes), lines 71-77 *)

\* DegreeScores without the scaling by s: the plain degrees
DegreeScoresUnscaled(Gr, S, s) == [v \in S |-> Frac(Degree(Gr, v), 1)]

\* dict((n, d*s) for n, d in G.degree_iter(S))
DegreeScores(Gr, S, s) == [v \in S |-> RMul(Frac(Degree(Gr, v), 1), s)]

\* lines 71-74: the two node sets, s = 1.0/len(bottom), the scores of top
DegreeTop ==
    /\ status = "idle"
    /\ call' = "degree"
    /\ top' = nodes
    /\ bottom' = G.nodes \ nodes
    /\ IF Cardinality(bottom') = 0
       THEN /\ status' = "raised"
            /\ raised' = "ZeroDivisionError"
            /\ pc' = 73
            /\ UNCHANGED centrality
       ELSE /\ status' = "running"
            /\ raised' = "none"
            /\ pc' = 75
            /\ centrality' = DegreeScores(G, top', Frac(1, Cardinality(bottom')))
    /\ UNCHANGED <<G, nodes, normalized, n, m, betweenness, closeness,
                   bet_max_top, bet_max_bot, todo>>

\* DegreeBottom without line 75: bottom scaled by the stale s = 1.0/len(bottom)
DegreeBottomStaleScale ==
    /\ status = "running" /\ call = "degree" /\ pc = 75
    /\ status' = "returned"
    /\ raised' = "none"
    /\ pc' = 77
    /\ centrality' =
         Update(centrality,
                DegreeScores(G, bottom, Frac(1, Cardinality(bottom))))
    /\ UNCHANGED <<G, nodes, normalized, call, top, bottom, n, m, betweenness,
                   closeness, bet_max_top, bet_max_bot, todo>>

\* DegreeBottom with the division guarded: an empty top is scaled by 1
DegreeBottomGuarded ==
    /\ status = "running" /\ call = "degree" /\ pc = 75
    /\ status' = "returned"
    /\ raised' = "none"
    /\ pc' = 77
    /\ centrality' =
         Update(centrality,
                DegreeScores(G, bottom,
                             IF Cardinality(top) = 0 THEN One
                             ELSE Frac(1, Cardinality(top))))
    /\ UNCHANGED <<G, nodes, normalized, call, top, bottom, n, m, betweenness,
                   closeness, bet_max_top, bet_max_bot, todo>>

\* lines 75-77: s = 1.0/len(top), the scores of bottom, return
DegreeBottom ==
    /\ status = "running" /\ call = "degree" /\ pc = 75
    /\ IF Cardinality(top) = 0
       THEN /\ status' = "raised"
            /\ raised' = "ZeroDivisionError"
            /\ pc' = 75
            /\ UNCHANGED centrality
       ELSE /\ status' = "returned"
            /\ raised' = "none"
            /\ pc' = 77
            /\ centrality' =
                 Update(centrality,
                        DegreeScores(G, bottom, Frac(1, Cardinality(top))))
    /\ UNCHANGED <<G, nodes, normalized, call, top, bottom, n, m, betweenness,
                   closeness, bet_max_top, bet_max_bot, todo>>

-----------------------------------------------------------------------------
(* bipartite_betweenness_centrality(G, nodes), lines 154-174 *)

\* lines 158-162, with a = n and b = m (b # 0): s = (n-1)//m, t = (n-1)%m
BetMaxTop(a, b) ==
    LET s == (a - 1) \div b
        t == (a - 1) % b
    IN  Frac((b * b) * ((s + 1) * (s + 1)) + (b * (s + 1) * (2 * t - s - 1))
             - (t * ((2 * s) - t + 3)), 2)

\* BetMaxBot computed with the expression of the other side
BetMaxBotAsTop(a, b) == BetMaxTop(a, b)

\* lines 163-167, with a = n (a # 0) and b = m: p = (m-1)//n, r = (m-1)%n
BetMaxBot(a, b) ==
    LET p == (b - 1) \div a
        r == (b - 1) % a
    IN  Frac((a * a) * ((p + 1) * (p + 1)) + (a * (p + 1) * (2 * r - p - 1))
             - (r * ((2 * p) - r + 3)), 2)

\* lines 154-167: the node sets and the two normalization constants; the
\* float floor division or modulo by 0.0 raises
BetweennessConstants ==
    /\ status = "idle"
    /\ call' = "betweenness"
    /\ top' = nodes
    /\ bottom' = G.nodes \ nodes
    /\ n' = Cardinality(top')
    /\ m' = Cardinality(bottom')
    /\ IF m' = 0
       THEN /\ status' = "raised"
            /\ raised' = "ZeroDivisionError"
            /\ pc' = 158
            /\ UNCHANGED <<bet_max_top, bet_max_bot>>
       ELSE IF n' = 0
       THEN /\ status' = "raised"
            /\ raised' = "ZeroDivisionError"
            /\ pc' = 163
            /\ bet_max_top' = BetMaxTop(n', m')
            /\ UNCHANGED bet_max_bot
       ELSE /\ status' = "running"
            /\ raised' = "none"
            /\ pc' = 168
            /\ bet_max_top' = BetMaxTop(n', m')
            /\ bet_max_bot' = BetMaxBot(n', m')
    /\ UNCHANGED <<G, nodes, normalized, centrality, betweenness, closeness,
                   todo>>

\* lines 168-169: the raw betweenness of every node; then the loop over top
BetweennessRaw ==
    /\ status = "running" /\ call = "betweenness" /\ pc = 168
    /\ betweenness' = RawBetweenness(G)
    /\ todo' = top
    /\ pc' = 170
    /\ UNCHANGED <<G, nodes, normalized, call, status, raised, top, bottom,
                   n, m, centrality, closeness, bet_max_top, bet_max_bot>>

\* Rescale where a division by 0.0 yields an undefined score (0/0) and the
\* loop goes on
RescaleNoRaise(d, line) ==
    \E node \in todo :
       /\ betweenness' =
            SetItem(betweenness, node,
                    IF IsZero(d) THEN <<0, 0>>
                    ELSE RDiv(betweenness[node], d))
       /\ todo' = todo \ {node}
       /\ UNCHANGED <<status, raised, pc>>

\* betweenness[node] /= d; the float division by 0.0 raises
Rescale(d, line) ==
    \E node \in todo :
       IF IsZero(d)
       THEN /\ status' = "raised"
            /\ raised' = "ZeroDivisionError"
            /\ pc' = line
            /\ UNCHANGED <<betweenness, todo>>
       ELSE /\ betweenness' =
                 SetItem(betweenness, node, RDiv(betweenness[node], d))
            /\ todo' = todo \ {node}
            /\ UNCHANGED <<status, raised, pc>>

\* lines 170-171, one iteration
BetweennessTopLoop ==
    /\ status = "running" /\ call = "betweenness" /\ pc = 170
    /\ Rescale(bet_max_top, 171)
    /\ UNCHANGED <<G, nodes, normalized, call, top, bottom, n, m, centrality,
                   closeness, bet_max_top, bet_max_bot>>

\* line 170 exhausted: on to the loop over bottom
BetweennessTopExit ==
    /\ status = "running" /\ call = "betweenness" /\ pc = 170
    /\ todo = {}
    /\ todo' = bottom
    /\ pc' = 172
    /\ UNCHANGED <<G, nodes, normalized, call, status, raised, top, bottom,
                   n, m, centrality, betweenness, closeness, bet_max_top,
                   bet_max_bot>>

\* lines 172-173, one iteration
BetweennessBottomLoop ==
    /\ status = "running" /\ call = "betweenness" /\ pc = 172
    /\ Rescale(bet_max_bot, 173)
    /\ UNCHANGED <<G, nodes, normalized, call, top, bottom, n, m, centrality,
                   closeness, bet_max_top, bet_max_bot>>

\* line 172 exhausted, line 174: return betweenness
BetweennessReturn ==
    /\ status = "running" /\ call = "betweenness" /\ pc = 172
    /\ todo = {}
    /\ status' = "returned"
    /\ pc' = 174
    /\ UNCHANGED <<G, nodes, normalized, call, raised, top, bottom, n, m,
                   centrality, betweenness, closeness, bet_max_top,
                   bet_max_bot, todo>>

-----------------------------------------------------------------------------
(* bipartite_closeness_centrality(G, nodes, normalized=True), lines 245-271 *)

\* TopNumerator counting the node itself among its own side: m + 2*n
TopNumeratorWithSelf(a, b) == b + 2 * a

\* line 255: m + 2*(n-1)
TopNumerator(a, b) == b + 2 * (a - 1)

\* line 265: n + 2*(m-1)
BottomNumerator(a, b) == a + 2 * (b - 1)

\* ReachFactor counting the node itself as reached: len(sp) / (len(G)-1)
ReachFactorWithSelf(Gr, sp) ==
    Frac(Cardinality(DOMAIN sp), Cardinality(Gr.nodes) - 1)

\* lines 257-258: s = (len(sp)-1.0) / (len(G)-1)
ReachFactor(Gr, sp) ==
    Frac(Cardinality(DOMAIN sp) - 1, Cardinality(Gr.nodes) - 1)

\* the key the else branch writes 0.0 under (lines 260 and 270): n
ZeroKey(node, a) == a

\* the body of either loop (lines 252-260, 262-270) for one node
ClosenessBody(d, Gr, node, numer, a, norm) ==
    LET sp == ShortestPathLengths(Gr, node)
        totsp == SumInt(sp, DOMAIN sp)
    IN  IF totsp > 0 /\ Cardinality(Gr.nodes) > 1
        THEN SetItem(d, node,
                     IF norm
                     THEN RMul(Frac(numer, totsp), ReachFactor(Gr, sp))
                     ELSE Frac(numer, totsp))
        ELSE SetItem(d, ZeroKey(node, a), Zero)

\* lines 245-250
ClosenessInit ==
    /\ status = "idle"
    /\ call' = "closeness"
    /\ normalized' \in BOOLEAN
    /\ closeness' = EmptyDict
    /\ top' = nodes
    /\ bottom' = G.nodes \ nodes
    /\ n' = Cardinality(top')
    /\ m' = Cardinality(bottom')
    /\ todo' = top'
    /\ status' = "running"
    /\ pc' = 251
    /\ UNCHANGED <<G, nodes, raised, centrality, betweenness, bet_max_top,
                   bet_max_bot>>

\* lines 251-260, one iteration
ClosenessTopLoop ==
    /\ status = "running" /\ call = "closeness" /\ pc = 251
    /\ \E node \in todo :
          /\ closeness' = ClosenessBody(closeness, G, node,
                                        TopNumerator(n, m), n, normalized)
          /\ todo' = todo \ {node}
    /\ UNCHANGED <<G, nodes, normalized, call, status, pc, raised, top,
                   bottom, n, m, centrality, betweenness, bet_max_top,
                   bet_max_bot>>

\* line 251 exhausted: on to the loop over bottom
ClosenessTopExit ==
    /\ status = "running" /\ call = "closeness" /\ pc = 251
    /\ todo = {}
    /\ todo' = bottom
    /\ pc' = 261
    /\ UNCHANGED <<G, nodes, normalized, call, status, raised, top, bottom,
                   n, m, centrality, betweenness, closeness, bet_max_top,
                   bet_max_bot>>

\* lines 261-270, one iteration
ClosenessBottomLoop ==
    /\ status = "running" /\ call = "closeness" /\ pc = 261
    /\ \E node \in todo :
          /\ closeness' = ClosenessBody(closeness, G, node,
                                        BottomNumerator(n, m), n, normalized)
          /\ todo' = todo \ {node}
    /\ UNCHANGED <<G, nodes, normalized, call, status, pc, raised, top,
                   bottom, n, m, centrality, betweenness, bet_max_top,
                   bet_max_bot>>

\* line 261 exhausted, line 271: return closeness
ClosenessReturn ==
    /\ status = "running" /\ call = "closeness" /\ pc = 261
    /\ todo = {}
    /\ status' = "returned"
    /\ pc' = 271
    /\ UNCHANGED <<G, nodes, normalized, call, raised, top, bottom, n, m,
                   centrality, betweenness, closeness, bet_max_top,
                   bet_max_bot, todo>>

-----------------------------------------------------------------------------

Next ==
    \/ DegreeTop
    \/ DegreeBottom
    \/ BetweennessConstants
    \/ BetweennessRaw
    \/ BetweennessTopLoop
    \/ BetweennessTopExit
    \/ BetweennessBottomLoop
    \/ BetweennessReturn
    \/ ClosenessInit
    \/ ClosenessTopLoop
    \/ ClosenessTopExit
    \/ ClosenessBottomLoop
    \/ ClosenessReturn

Spec == Init /\ [][Next]_vars

\* bipartite_degree_centrality alone
NextDegree == DegreeTop \/ DegreeBottom

SpecDegree == Init /\ [][NextDegree]_vars

\* bipartite_betweenness_centrality alone
NextBetweenness ==
    \/ BetweennessConstants
    \/ BetweennessRaw
    \/ BetweennessTopLoop
    \/ BetweennessTopExit
    \/ BetweennessBottomLoop
    \/ BetweennessReturn

SpecBetweenness == Init /\ [][NextBetweenness]_vars

\* bipartite_closeness_centrality alone
NextCloseness ==
    \/ ClosenessInit
    \/ ClosenessTopLoop
    \/ ClosenessTopExit
    \/ ClosenessBottomLoop
    \/ ClosenessReturn

SpecCloseness == Init /\ [][NextCloseness]_vars

-----------------------------------------------------------------------------
(* Vocabulary of the properties *)

Top == nodes
Bottom == G.nodes \ nodes

\* Top is a non-empty proper subset of the nodes of G
ValidPartition == Top # {} /\ Bottom # {} /\ Top \subseteq G.nodes

\* every edge joins a Top node to a Bottom node
IsBipartite == \A e \in G.edges : Cardinality(e \cap Top) = 1

\* every cross pair is an edge and there is no other edge
IsCompleteBipartite == G.edges = CrossPairs(G.nodes, Top)

IsConnected ==
    \A v \in G.nodes : DOMAIN ShortestPathLengths(G, v) = G.nodes

TotalDistance(v) ==
    LET sp == ShortestPathLengths(G, v) IN SumInt(sp, DOMAIN sp)

ReachableCount(v) == Cardinality(DOMAIN ShortestPathLengths(G, v))

Returned(f) == call = f /\ status = "returned"

\* a score that is a real number: a fraction with a positive denominator
IsFinite(x) == x[2] > 0

-----------------------------------------------------------------------------
(* C1: for a valid partition bipartite_degree_centrality returns, and maps *)
(* each node of Top to degree/|Bottom| and each node of Bottom to          *)
(* degree/|Top|.                                                           *)
C1_DegreeFormula ==
    (call = "degree" /\ ValidPartition) =>
        /\ status # "raised"
        /\ status = "returned" =>
             /\ \A v \in Top :
                   /\ v \in DOMAIN centrality
                   /\ centrality[v] = Frac(Degree(G, v), Cardinality(Bottom))
             /\ \A v \in Bottom :
                   /\ v \in DOMAIN centrality
                   /\ centrality[v] = Frac(Degree(G, v), Cardinality(Top))

\* a returned result with a Top score of 2/3 and a Bottom score of 1/2
C1_Witness ==
    /\ Returned("degree") /\ ValidPartition
    /\ \E v \in Top : centrality[v] = Frac(2, 3)
    /\ \E v \in Bottom : centrality[v] = Frac(1, 2)

-----------------------------------------------------------------------------
(* C2 (as claimed): bipartite_closeness_centrality gives every node v of   *)
(* positive total distance d the score (m+2(n-1))/d (Top) or (n+2(m-1))/d  *)
(* (Bottom), times (reachableCount-1)/(|G|-1) exactly when normalized; on  *)
(* the path A-X-B-Y with Top = {A, B} the score of A is 4/6.               *)
C2_Expected(v) ==
    LET nn == Cardinality(Top)
        mm == Cardinality(Bottom)
        raw == IF v \in Top THEN Frac(mm + 2 * (nn - 1), TotalDistance(v))
               ELSE Frac(nn + 2 * (mm - 1), TotalDistance(v))
    IN  IF normalized
        THEN RMul(raw, Frac(ReachableCount(v) - 1, Cardinality(G.nodes) - 1))
        ELSE raw

C2_ClosenessFormula ==
    (Returned("closeness") /\ ValidPartition /\ Cardinality(G.nodes) > 1) =>
        /\ \A v \in G.nodes :
              TotalDistance(v) > 0 =>
                 v \in DOMAIN closeness /\ closeness[v] = C2_Expected(v)
        /\ (/\ G.nodes = 1..4 /\ Top = {1, 3}
            /\ G.edges = {{1, 2}, {2, 3}, {3, 4}})
              => closeness[1] = Frac(4, 6)

-----------------------------------------------------------------------------
(* C3: when bipartite_betweenness_centrality returns for a valid          *)
(* partition, MaxTop and MaxBottom are not zero, each Top node holds its  *)
(* raw betweenness divided by MaxTop and each Bottom node its raw         *)
(* betweenness divided by MaxBottom, where Max(a, b) is                   *)
(* [b^2(q+1)^2 + b(q+1)(2r-q-1) - r(2q-r+3)]/2, q = (a-1) div b,          *)
(* r = (a-1) mod b, MaxTop = Max(n, m) and MaxBottom = Max(m, n).         *)
C3_Max(a, b) ==
    LET q == (a - 1) \div b
        r == (a - 1) % b
    IN  Frac(b * b * (q + 1) * (q + 1) + b * (q + 1) * (2 * r - q - 1)
             - r * (2 * q - r + 3), 2)

C3_BetweennessFormula ==
    (Returned("betweenness") /\ ValidPartition) =>
        LET nn == Cardinality(Top)
            mm == Cardinality(Bottom)
            raw == RawBetweenness(G)
        IN  /\ DOMAIN betweenness = G.nodes
            /\ ~IsZero(C3_Max(nn, mm))
            /\ ~IsZero(C3_Max(mm, nn))
            /\ \A v \in Top :
                  betweenness[v] = RDiv(raw[v], C3_Max(nn, mm))
            /\ \A v \in Bottom :
                  betweenness[v] = RDiv(raw[v], C3_Max(mm, nn))

\* a returned result for sides of different sizes with a non-zero score on
\* each side
C3_Witness ==
    /\ Returned("betweenness") /\ ValidPartition
    /\ Cardinality(Top) # Cardinality(Bottom)
    /\ \E v \in Top : betweenness[v] # Zero
    /\ \E v \in Bottom : betweenness[v] # Zero

-----------------------------------------------------------------------------
(* C4 (as claimed): for a valid partition the keys of a returned mapping   *)
(* are exactly the nodes of G, and bipartite_closeness_centrality records  *)
(* a node of zero total distance under its own identifier with score 0.    *)
C4_KeysAreNodes ==
    /\ (Returned("degree") /\ ValidPartition) => DOMAIN centrality = G.nodes
    /\ (Returned("betweenness") /\ ValidPartition) =>
          DOMAIN betweenness = G.nodes
    /\ (Returned("closeness") /\ ValidPartition) =>
          /\ DOMAIN closeness = G.nodes
          /\ \A v \in G.nodes :
                TotalDistance(v) = 0 =>
                   v \in DOMAIN closeness /\ closeness[v] = Zero

-----------------------------------------------------------------------------
(* C5 (as claimed): for every bipartite graph and valid partition every    *)
(* closeness score is >= 0, and is <= 1 when normalized is true.           *)
C5_ClosenessRange ==
    (Returned("closeness") /\ ValidPartition /\ IsBipartite) =>
        \A k \in DOMAIN closeness :
           /\ RLe(Zero, closeness[k])
           /\ normalized => RLe(closeness[k], One)

(* C5 (amended): for every bipartite graph and valid partition every       *)
(* closeness score is >= 0; when the graph is connected every score with   *)
(* normalized true is <= 1.                                                *)
C5_ClosenessRangeConnected ==
    (Returned("closeness") /\ ValidPartition /\ IsBipartite) =>
        \A k \in DOMAIN closeness :
           /\ RLe(Zero, closeness[k])
           /\ (normalized /\ IsConnected) => RLe(closeness[k], One)

\* a connected bipartite graph, normalized, with a score strictly between
\* 0 and 1 and a score of 1
C5_Witness ==
    /\ Returned("closeness") /\ ValidPartition /\ IsBipartite
    /\ normalized /\ IsConnected
    /\ \E k \in DOMAIN closeness :
          closeness[k] # One /\ closeness[k] # Zero
    /\ \E k \in DOMAIN closeness : closeness[k] = One

-----------------------------------------------------------------------------
(* C6 (as claimed): each operation called with Top empty or Top equal to   *)
(* the node set ends in an error before any score is computed and returns  *)
(* no mapping.                                                             *)
InvalidPartition == Top = {} \/ Bottom = {}

-----------------------------------------------------------------------------
(* C7: for a valid partition with |Top| = 1 or |Bottom| = 1, or with a     *)
(* normalization constant equal to zero, bipartite_betweenness_centrality  *)
(* either returns a finite score for every node or ends in the error of    *)
(* dividing by a zero normalization constant (lines 171, 173), and in no   *)
(* other error.                                                            *)
C7_Degenerate ==
    LET nn == Cardinality(Top)
        mm == Cardinality(Bottom)
    IN  (/\ call = "betweenness" /\ ValidPartition
         /\ \/ nn = 1
            \/ mm = 1
            \/ IsZero(C3_Max(nn, mm))
            \/ IsZero(C3_Max(mm, nn))) =>
           /\ status = "raised" =>
                 /\ raised = "ZeroDivisionError"
                 /\ \/ pc = 171 /\ IsZero(bet_max_top)
                    \/ pc = 173 /\ IsZero(bet_max_bot)
           /\ status = "returned" =>
                 /\ DOMAIN betweenness = G.nodes
                 /\ \A v \in G.nodes : IsFinite(betweenness[v])
           /\ \A v \in DOMAIN betweenness : IsFinite(betweenness[v])

\* one Top node and two Bottom nodes: the Top constant is 1, the loop over
\* Top has run, and the division by the Bottom constant 0 raised
C7_Witness ==
    /\ call = "betweenness" /\ ValidPartition
    /\ Cardinality(Top) = 1 /\ Cardinality(Bottom) = 2
    /\ bet_max_top = One
    /\ status = "raised" /\ pc = 173

-----------------------------------------------------------------------------
(* C8: for a simple bipartite graph and a valid partition every score of   *)
(* bipartite_degree_centrality is >= 0 and <= 1.                           *)
C8_DegreeRange ==
    (Returned("degree") /\ ValidPartition /\ IsBipartite) =>
        \A v \in G.nodes :
           /\ v \in DOMAIN centrality
           /\ RLe(Zero, centrality[v])
           /\ RLe(centrality[v], One)

\* a bipartite graph where a node has score 1, a node score 0 and a node a
\* score in between
C8_Witness ==
    /\ Returned("degree") /\ ValidPartition /\ IsBipartite
    /\ \E v \in G.nodes : centrality[v] = One
    /\ \E v \in G.nodes : centrality[v] = Zero
    /\ \E v \in G.nodes : centrality[v] # One /\ centrality[v] # Zero

-----------------------------------------------------------------------------
(* C9 (as claimed): in bipartite_closeness_centrality an entry of the      *)
(* result, once written, is not overwritten with another value while       *)
(* another node is processed.                                              *)
C9_NoOverwrite ==
    [][(call = "closeness" /\ status = "running") =>
          \A k \in DOMAIN closeness :
             k \in DOMAIN closeness' /\ closeness'[k] = closeness[k]]_vars

-----------------------------------------------------------------------------
(* C10: for the complete bipartite graph K(n,m), n >= 1 and m >= 1, with   *)
(* Top the side of size n, bipartite_closeness_centrality returns exactly  *)
(* 1 for every node, with normalized true and with normalized false.       *)
C10_CompleteBipartite ==
    (Returned("closeness") /\ ValidPartition /\ IsCompleteBipartite) =>
        /\ DOMAIN closeness = G.nodes
        /\ \A v \in G.nodes : closeness[v] = One

\* K(2,3), not normalized: every total distance equals the numerator
C10_Witness ==
    /\ Returned("closeness") /\ ValidPartition /\ IsCompleteBipartite
    /\ Cardinality(Top) = 2 /\ Cardinality(Bottom) = 3
    /\ ~normalized
    /\ \A v \in Top : TotalDistance(v) = 3 + 2 * (2 - 1)
    /\ \A v \in Bottom : TotalDistance(v) = 2 + 2 * (3 - 1)
====
